---- MODULE Spec2Model ----
(***************************************************************************)
(* Model of InlineMermaidDiagram                                           *)
(* (client/src/components/Chat/Messages/Content/MermaidDiagram.tsx):       *)
(* the debounced, cancellable render pipeline with its auto-correction     *)
(* fallback, and the pure text functions it uses.  Texts are sequences of  *)
(* one-character strings.                                                  *)
(***************************************************************************)
EXTENDS Integers, Sequences, FiniteSets, TLC

\* ------------------------------------------------------------------------
\* Bounds of the model
\* ------------------------------------------------------------------------
\* number of effect runs (generations) explored
MaxGen == 2
\* number of clipboard writes of handleTryFix that may be pending together
MaxTryFix == 1
\* number of pieces concatenated into an input of fixCommonSyntaxIssues
MaxPieces == 4
\* number of useCreateConversationAtom hooks that mount
MaxHooks == 3
\* the conversation keys (indices) are 0..MaxKey
MaxKey == 1

\* ------------------------------------------------------------------------
\* Characters and text helpers
\* ------------------------------------------------------------------------
\* \s of a JavaScript regular expression, and the characters trim() strips
IsSpace(c) == c \in {" ", "\n", "\t", "\r"}

UpperLetters ==
  <<"A", "B", "C", "D", "E", "F", "G", "H", "I", "J", "K", "L", "M",
    "N", "O", "P", "Q", "R", "S", "T", "U", "V", "W", "X", "Y", "Z">>

LowerLetters ==
  <<"a", "b", "c", "d", "e", "f", "g", "h", "i", "j", "k", "l", "m",
    "n", "o", "p", "q", "r", "s", "t", "u", "v", "w", "x", "y", "z">>

\* [A-Za-z]
IsLetter(c) == \E i \in 1..26 : c = UpperLetters[i] \/ c = LowerLetters[i]

\* case folding of the /i flag
Lower(c) ==
  IF \E i \in 1..26 : c = UpperLetters[i]
  THEN LowerLetters[CHOOSE i \in 1..26 : c = UpperLetters[i]]
  ELSE c

\* s[from..] begins with pat
StartsAt(s, from, pat) ==
  /\ from + Len(pat) - 1 <= Len(s)
  /\ \A k \in 1..Len(pat) : s[from + k - 1] = pat[k]

\* s[from..] begins with pat, ignoring case
StartsAtNoCase(s, from, pat) ==
  /\ from + Len(pat) - 1 <= Len(s)
  /\ \A k \in 1..Len(pat) : Lower(s[from + k - 1]) = Lower(pat[k])

\* index of the first character at or after from that is not whitespace
\* (Len(s) + 1 when there is none)
RECURSIVE SkipSpaces(_, _)
SkipSpaces(s, from) ==
  IF from <= Len(s) /\ IsSpace(s[from]) THEN SkipSpaces(s, from + 1) ELSE from

\* index of the last character at or before to that is not whitespace
RECURSIVE SkipSpacesBack(_, _)
SkipSpacesBack(s, to) ==
  IF to >= 1 /\ IsSpace(s[to]) THEN SkipSpacesBack(s, to - 1) ELSE to

\* content.trim()
Trim(s) == SubSeq(s, SkipSpaces(s, 1), SkipSpacesBack(s, Len(s)))

\* ------------------------------------------------------------------------
\* Diagram type validation: the regular expression of renderDiagram
\* ------------------------------------------------------------------------
DiagramTypes ==
  { <<"g", "r", "a", "p", "h">>,
    <<"f", "l", "o", "w", "c", "h", "a", "r", "t">>,
    <<"s", "e", "q", "u", "e", "n", "c", "e", "D", "i", "a", "g", "r", "a", "m">>,
    <<"c", "l", "a", "s", "s", "D", "i", "a", "g", "r", "a", "m">>,
    <<"s", "t", "a", "t", "e", "D", "i", "a", "g", "r", "a", "m">>,
    <<"e", "r", "D", "i", "a", "g", "r", "a", "m">>,
    <<"j", "o", "u", "r", "n", "e", "y">>,
    <<"g", "a", "n", "t", "t">>,
    <<"p", "i", "e">>,
    <<"g", "i", "t", "g", "r", "a", "p", "h">>,
    <<"m", "i", "n", "d", "m", "a", "p">>,
    <<"t", "i", "m", "e", "l", "i", "n", "e">>,
    <<"q", "u", "a", "d", "r", "a", "n", "t">>,
    <<"b", "l", "o", "c", "k", "-", "b", "e", "t", "a">>,
    <<"s", "a", "n", "k", "e", "y">>,
    <<"x", "y", "c", "h", "a", "r", "t">> }

\* faulty variant: the expression lacks its ^ anchor
MatchesDiagramTypeAnywhere(text) ==
  \E kw \in DiagramTypes : \E i \in 1..Len(text) : StartsAtNoCase(text, i, kw)

\* cleanContent.match(/^(graph|flowchart|...)/i)
MatchesDiagramType(text) == \E kw \in DiagramTypes : StartsAtNoCase(text, 1, kw)

\* ------------------------------------------------------------------------
\* fixCommonSyntaxIssues: five global replacements, in order
\* ------------------------------------------------------------------------
\* s.replace(/<pre>\s+<post>/g, pre + post): scanning from index i, a match
\* is pre, then a maximal non-empty run of whitespace, then post; the scan
\* resumes after the match.
RECURSIVE ReplaceGap(_, _, _, _)
ReplaceGap(s, i, pre, post) ==
  IF i > Len(s) THEN <<>>
  ELSE LET j == i + Len(pre)
           k == SkipSpaces(s, j)
       IN IF StartsAt(s, i, pre) /\ k > j /\ StartsAt(s, k, post)
          THEN pre \o post \o ReplaceGap(s, k + Len(post), pre, post)
          ELSE <<s[i]>> \o ReplaceGap(s, i + 1, pre, post)

\* index of the first "[" or "]" at or after from (Len(s) + 1 when none)
RECURSIVE NextBracket(_, _)
NextBracket(s, from) ==
  IF from <= Len(s) /\ s[from] # "[" /\ s[from] # "]"
  THEN NextBracket(s, from + 1)
  ELSE from

\* the indices of the double quotes of s within lo..hi
QuotesIn(s, lo, hi) == { q \in lo..hi : s[q] = "\"" }

Max(S) == CHOOSE m \in S : \A n \in S : n <= m

\* s.replace(/\[([^[\]]*)"([^[\]]*)"([^[\]]*)\]/g, '[$1$2$3]'): a match is
\* a "[" whose next bracket is a "]" with at least two quotes in between;
\* the greedy groups make the two removed quotes the last two.
RECURSIVE RemoveLabelQuotes(_, _)
RemoveLabelQuotes(s, i) ==
  IF i > Len(s) THEN <<>>
  ELSE LET j  == NextBracket(s, i + 1)
           qs == QuotesIn(s, i + 1, j - 1)
       IN IF s[i] = "[" /\ j <= Len(s) /\ s[j] = "]" /\ Cardinality(qs) >= 2
          THEN LET q2 == Max(qs)
                   q1 == Max(qs \ {q2})
               IN SubSeq(s, i, q1 - 1) \o SubSeq(s, q1 + 1, q2 - 1)
                    \o SubSeq(s, q2 + 1, j) \o RemoveLabelQuotes(s, j + 1)
          ELSE <<s[i]>> \o RemoveLabelQuotes(s, i + 1)

Subgraph == <<"s", "u", "b", "g", "r", "a", "p", "h">>

\* s.replace(/subgraph([A-Za-z])/g, 'subgraph $1'): the letter is part of
\* the match, so the scan resumes after it.
RECURSIVE SpaceAfterSubgraph(_, _)
SpaceAfterSubgraph(s, i) ==
  IF i > Len(s) THEN <<>>
  ELSE LET l == i + Len(Subgraph)
       IN IF StartsAt(s, i, Subgraph) /\ l <= Len(s) /\ IsLetter(s[l])
          THEN Subgraph \o <<" ", s[l]>> \o SpaceAfterSubgraph(s, l + 1)
          ELSE <<s[i]>> \o SpaceAfterSubgraph(s, i + 1)

fixCommonSyntaxIssues(text) ==
  LET f1 == ReplaceGap(text, 1, <<"-", "-">>, <<">">>)
      f2 == ReplaceGap(f1, 1, <<"-", "-">>, <<"|">>)
      f3 == ReplaceGap(f2, 1, <<"|">>, <<"-", "-", ">">>)
      f4 == RemoveLabelQuotes(f3, 1)
      f5 == SpaceAfterSubgraph(f4, 1)
  IN f5

\* faulty variant: the repaired text is tried even when it equals the original
AlwaysHasFix(text) == TRUE

\* fixedContent !== cleanContent
HasFix(text) == fixCommonSyntaxIssues(text) # text

\* ------------------------------------------------------------------------
\* Inputs of the component
\* ------------------------------------------------------------------------
TxtBlank   == <<" ", "\n">>
TxtBad     == <<"x", "p", "i", "e">>
TxtGood    == <<"P", "i", "e">>
TxtPadded  == <<" ", "P", "i", "e", "\n">>
TxtFixable == <<"p", "i", "e", "-", "-", " ", ">">>

Contents == {TxtBlank, TxtBad, TxtGood, TxtPadded, TxtFixable}

\* The text functions are evaluated once on the inputs of the component:
\* content.trim() of each input
TrimOf == [c \in Contents |-> Trim(c)]

\* the values cleanContent takes
CleanTexts == { TrimOf[c] : c \in Contents }

\* the trimmed texts that pass the type validation
RecognisedTexts == { t \in CleanTexts : MatchesDiagramType(t) }

\* fixCommonSyntaxIssues of each trimmed text
RepairOf == [t \in CleanTexts |-> fixCommonSyntaxIssues(t)]

\* the texts, raw or trimmed, for which a differing repaired text exists
FixableTexts == { t \in CleanTexts \cup Contents : HasFix(t) }

\* the pieces inputs of fixCommonSyntaxIssues are built from
Pieces ==
  { <<"-">>, <<" ">>, <<">">>, <<"|">>, <<"[">>, <<"]">>, <<"\"">>, <<"A">>,
    Subgraph }

Gens == 1..MaxGen

\* ------------------------------------------------------------------------
\* Values of the component state
\* ------------------------------------------------------------------------
NULL == "null"
ErrEmpty == "No diagram content provided"
ErrInvalidType == "Invalid Mermaid syntax - diagram must start with a valid diagram type"
ErrRepairFailed == "Invalid diagram syntax - syntax errors found but unable to auto-correct"
ErrUnrepairable == "Invalid diagram syntax - check arrow formatting and node labels"
ErrNoSvg == "No SVG generated - rendering failed unexpectedly"
ErrRenderingFailed == "Rendering failed"
ErrFixCopied == "Potential fix copied to clipboard. Common issues found and corrected."

\* timeoutRef.current === null
NoTimer == 0

\* the theme option handed to mermaid.initialize
ThemeOf(dark) == IF dark THEN "dark" ELSE "default"

\* the markup mermaid.render produces for a text under the configured theme
Svg(text, theme) == [text |-> text, theme |-> theme, sized |-> FALSE]

\* useState<string>('')
NoSvg == [text |-> <<>>, theme |-> "none", sized |-> FALSE]

\* processedSvg: the size constraints are added to the root element
ProcessSvg(svg) == [svg EXCEPT !.sized = TRUE]

\* what a mermaid.render call can do: resolve with markup, resolve without
\* usable markup, or throw
RenderResults == {"svg", "nosvg", "throw"}

VARIABLES
  content,          \* prop content
  isDarkMode,       \* isDark(theme) of the ThemeContext
  svgContent,       \* useState: the stored markup
  isRendered,       \* useState
  error,            \* useState: NULL or a message
  wasAutoCorrected, \* useState
  mounted,          \* the component is mounted (state updates are applied)
  timeoutRef,       \* timeoutRef.current: NoTimer or the generation of the timer
  timers,           \* generations whose setTimeout is pending
  genCount,         \* number of runs of the layout effect so far
  pc,               \* per generation: where its renderDiagram stands
  isCancelled,      \* per generation: the closure's isCancelled flag
  cleanContent,     \* per generation: the closure's cleanContent
  genTheme,         \* per generation: the closure's isDarkMode
  pending,          \* mermaid.render calls that have not settled
  engineTheme,      \* the theme of mermaid's global configuration
  log,              \* history: the calls made to mermaid, in order
  tryFixPending,    \* clipboard writes of handleTryFix that have not settled
  commits,          \* history, per generation: the outcomes its code committed
  origResult,       \* history, per generation: how its original render settled
  fixedResult,      \* history, per generation: how its repaired render settled
  cancelledAt,      \* history, per generation: pc when it was cancelled
  x,                \* the pieces of the input of fixCommonSyntaxIssues under study
  conversationKeysAtom, \* the value of the atom: a list of keys
  hooks,            \* per useCreateConversationAtom call site: its key, the
                    \* keys its last render read, and whether its effect is due
  overwrote         \* history: a setKeys call has dropped a key from the list

vars ==
  <<content, isDarkMode, svgContent, isRendered, error, wasAutoCorrected,
    mounted, timeoutRef, timers, genCount, pc, isCancelled, cleanContent,
    genTheme, pending, engineTheme, log, tryFixPending, commits, origResult,
    fixedResult, cancelledAt, x, conversationKeysAtom, hooks, overwrote>>

\* the state of the conversation key registry
hookVars == <<conversationKeysAtom, hooks, overwrote>>

\* the state of the diagram component and of the repair function
diagramVars ==
  <<content, isDarkMode, svgContent, isRendered, error, wasAutoCorrected,
    mounted, timeoutRef, timers, genCount, pc, isCancelled, cleanContent,
    genTheme, pending, engineTheme, log, tryFixPending, commits, origResult,
    fixedResult, cancelledAt, x>>

\* the hook call sites and the keys they may be given
Hooks == 1..MaxHooks
ConvoKeys == 0..MaxKey

\* a call site that has not mounted
NoHook == [status |-> "new", key |-> 0, keys |-> <<>>, effect |-> FALSE]

\* the state the presentation shows
obs == <<error, svgContent, isRendered, wasAutoCorrected>>

\* the generation of the latest effect run
cur == genCount

Init ==
  /\ content = <<>>
  /\ isDarkMode = FALSE
  /\ svgContent = NoSvg
  /\ isRendered = FALSE
  /\ error = NULL
  /\ wasAutoCorrected = FALSE
  /\ mounted = FALSE
  /\ timeoutRef = NoTimer
  /\ timers = {}
  /\ genCount = 0
  /\ pc = [g \in Gens |-> "idle"]
  /\ isCancelled = [g \in Gens |-> FALSE]
  /\ cleanContent = [g \in Gens |-> <<>>]
  /\ genTheme = [g \in Gens |-> FALSE]
  /\ pending = {}
  /\ engineTheme = "unset"
  /\ log = <<>>
  /\ tryFixPending = 0
  /\ commits = [g \in Gens |-> <<>>]
  /\ origResult = [g \in Gens |-> "none"]
  /\ fixedResult = [g \in Gens |-> "none"]
  /\ cancelledAt = [g \in Gens |-> "live"]
  /\ x = <<>>
  /\ conversationKeysAtom = <<>>
  /\ hooks = [h \in Hooks |-> NoHook]
  /\ overwrote = FALSE

\* ------------------------------------------------------------------------
\* Helpers of the actions
\* ------------------------------------------------------------------------
\* a state setter: React drops the update of an unmounted component
Upd(old, new) == IF mounted THEN new ELSE old

\* faulty variant: the cleanup does not set the flag
NoCleanup(flags, g) == flags

\* the effect's cleanup function: isCancelled = true
Cleanup(flags, g) == [flags EXCEPT ![g] = TRUE]

\* diagramKey: the trimmed content and the theme
diagramKey(c, d) == <<TrimOf[c], IF d THEN "dark" ELSE "light">>

\* faulty variant: the effect depends on the content only
DepsChangedContentOnly(c, d) == c # content

\* the dependency list [diagramKey, content, isDarkMode] of the layout
\* effect differs from that of the previous render
DepsChanged(c, d) ==
  \/ diagramKey(c, d) # diagramKey(content, isDarkMode)
  \/ c # content
  \/ d # isDarkMode

\* faulty variant: the pending timer is not cleared
KeepTimeout(ts, ref) == ts

\* clearTimeout(timeoutRef.current)
ClearTimeout(ts, ref) == ts \ {ref}

\* faulty variant: the empty-text check is missing
NeverEmptyText(clean) == FALSE

\* if (!cleanContent)
IsEmptyText(clean) == clean = <<>>

\* faulty variant: the fallback also runs after a render that did not throw
AlwaysFallback(r) == TRUE

\* the catch of the original render: only a throw leads to the fallback
NeedsFallback(r) == r = "throw"

\* faulty variant: the auto-corrected flag is left as it was
LeaveAutoCorrected(w) == w

\* setWasAutoCorrected(true) after the repaired render resolved
MarkAutoCorrected(w) == TRUE

Snapshot(e, s, r, w) ==
  [error |-> e, svgContent |-> s, isRendered |-> r, wasAutoCorrected |-> w]

Call(op, g, theme, text) == [op |-> op, gen |-> g, theme |-> theme, text |-> text]

PendingCall(g, kind, text, theme) ==
  [gen |-> g, kind |-> kind, text |-> text, theme |-> theme]

\* setError(msg); setWasAutoCorrected(false), under if (!isCancelled)
CommitFailure(g, msg) ==
  /\ error' = Upd(error, msg)
  /\ wasAutoCorrected' = Upd(wasAutoCorrected, FALSE)
  /\ UNCHANGED <<svgContent, isRendered>>
  /\ commits' = [commits EXCEPT ![g] =
                   Append(@, Snapshot(error', svgContent', isRendered', wasAutoCorrected'))]

\* faulty variant: the result is committed without the test for its markup
FinishUnchecked(g, r, svg, w) ==
  IF isCancelled[g]
  THEN /\ wasAutoCorrected' = w
       /\ UNCHANGED <<error, svgContent, isRendered, commits>>
  ELSE /\ svgContent' = Upd(svgContent, ProcessSvg(svg))
       /\ isRendered' = Upd(isRendered, TRUE)
       /\ wasAutoCorrected' = w
       /\ UNCHANGED error
       /\ commits' = [commits EXCEPT ![g] =
                        Append(@, Snapshot(error', svgContent', isRendered', wasAutoCorrected'))]

\* the end of renderDiagram once a render call has resolved with result r
\* and markup svg; w is wasAutoCorrected as the code before has left it
Finish(g, r, svg, w) ==
  IF isCancelled[g]
  THEN /\ wasAutoCorrected' = w
       /\ UNCHANGED <<error, svgContent, isRendered, commits>>
  ELSE IF r = "svg"
  THEN /\ svgContent' = Upd(svgContent, ProcessSvg(svg))
       /\ isRendered' = Upd(isRendered, TRUE)
       /\ wasAutoCorrected' = w
       /\ UNCHANGED error
       /\ commits' = [commits EXCEPT ![g] =
                        Append(@, Snapshot(error', svgContent', isRendered', wasAutoCorrected'))]
  ELSE CommitFailure(g, ErrNoSvg)

\* ------------------------------------------------------------------------
\* Actions
\* ------------------------------------------------------------------------
\* The component renders with new props or a new theme (on mount, or when
\* content or the theme changes); the layout effect runs when its
\* dependencies have changed, the cleanup of the previous run first.
RunEffect(c, d) ==
  /\ genCount < MaxGen
  /\ \/ genCount = 0
     \/ mounted /\ <<c, d>> # <<content, isDarkMode>>
  /\ content' = c
  /\ isDarkMode' = d
  /\ mounted' = TRUE
  /\ IF genCount = 0 \/ DepsChanged(c, d)
     THEN LET g == genCount + 1
              clean == TrimOf[c]
              cleared == IF timeoutRef # NoTimer
                         THEN ClearTimeout(timers, timeoutRef)
                         ELSE timers
          IN /\ genCount' = g
             /\ isCancelled' = IF genCount = 0 THEN isCancelled
                               ELSE Cleanup(isCancelled, genCount)
             /\ cancelledAt' = IF genCount = 0 THEN cancelledAt
                               ELSE [cancelledAt EXCEPT ![genCount] = pc[genCount]]
             /\ cleanContent' = [cleanContent EXCEPT ![g] = clean]
             /\ genTheme' = [genTheme EXCEPT ![g] = d]
             /\ wasAutoCorrected' = FALSE
             /\ isRendered' = FALSE
             /\ IF IsEmptyText(clean)
                THEN /\ error' = ErrEmpty
                     /\ timers' = cleared
                     /\ timeoutRef' = NoTimer
                     /\ pc' = [pc EXCEPT ![g] = "done"]
                     /\ commits' = [commits EXCEPT ![g] =
                                      Append(@, Snapshot(ErrEmpty, svgContent, FALSE, FALSE))]
                ELSE /\ error' = NULL
                     /\ timers' = cleared \cup {g}
                     /\ timeoutRef' = g
                     /\ pc' = [pc EXCEPT ![g] = "debouncing"]
                     /\ UNCHANGED commits
     ELSE UNCHANGED <<genCount, isCancelled, cancelledAt, cleanContent,
                      genTheme, wasAutoCorrected, isRendered, error, timers,
                      timeoutRef, pc, commits>>
  /\ UNCHANGED <<svgContent, pending, engineTheme, log, tryFixPending,
                 origResult, fixedResult, x>>
  /\ UNCHANGED hookVars

\* The component unmounts: the cleanups of both layout effects run.
Unmount ==
  /\ mounted
  /\ mounted' = FALSE
  /\ isCancelled' = Cleanup(isCancelled, cur)
  /\ cancelledAt' = [cancelledAt EXCEPT ![cur] = pc[cur]]
  /\ timers' = IF timeoutRef # NoTimer THEN ClearTimeout(timers, timeoutRef)
               ELSE timers
  /\ timeoutRef' = NoTimer
  /\ UNCHANGED <<content, isDarkMode, svgContent, isRendered, error,
                 wasAutoCorrected, genCount, pc, cleanContent, genTheme,
                 pending, engineTheme, log, tryFixPending, commits,
                 origResult, fixedResult, x>>
  /\ UNCHANGED hookVars

\* faulty variant: the timer callback tests the flag the wrong way round
\* and never runs renderDiagram for a live generation
TimerFireInverted(g, initThrows) ==
  /\ g \in timers
  /\ timers' = timers \ {g}
  /\ pc' = [pc EXCEPT ![g] = "done"]
  /\ UNCHANGED <<content, isDarkMode, mounted, timeoutRef, genCount,
                 isCancelled, cleanContent, genTheme, tryFixPending,
                 origResult, fixedResult, cancelledAt, x, obs, commits,
                 pending, engineTheme, log>>
  /\ UNCHANGED hookVars

\* The debounce timer of generation g fires and renderDiagram runs up to its
\* first await; initThrows: mermaid.initialize throws.
TimerFire(g, initThrows) ==
  /\ g \in timers
  /\ timers' = timers \ {g}
  /\ UNCHANGED <<content, isDarkMode, mounted, timeoutRef, genCount,
                 isCancelled, cleanContent, genTheme, tryFixPending,
                 origResult, fixedResult, cancelledAt, x>>
  /\ IF isCancelled[g]
     THEN /\ pc' = [pc EXCEPT ![g] = "done"]
          /\ UNCHANGED <<obs, commits, pending, engineTheme, log>>
     ELSE IF cleanContent[g] \notin RecognisedTexts
     THEN /\ pc' = [pc EXCEPT ![g] = "done"]
          /\ CommitFailure(g, ErrInvalidType)
          /\ UNCHANGED <<pending, engineTheme, log>>
     ELSE IF initThrows
     THEN /\ pc' = [pc EXCEPT ![g] = "done"]
          /\ log' = Append(log, Call("initialize", g, ThemeOf(genTheme[g]), <<>>))
          /\ CommitFailure(g, ErrRenderingFailed)
          /\ UNCHANGED <<pending, engineTheme>>
     ELSE /\ pc' = [pc EXCEPT ![g] = "awaitOriginal"]
          /\ engineTheme' = ThemeOf(genTheme[g])
          /\ log' = log \o <<Call("initialize", g, ThemeOf(genTheme[g]), <<>>),
                             Call("render-original", g, engineTheme', cleanContent[g])>>
          /\ pending' = pending \cup
                          {PendingCall(g, "original", cleanContent[g], engineTheme')}
          /\ UNCHANGED <<obs, commits>>
  /\ UNCHANGED hookVars

\* The original mermaid.render call of generation g settles with result r.
SettleOriginal(g, r) ==
  /\ \E p \in pending :
       /\ p.gen = g /\ p.kind = "original"
       /\ origResult' = [origResult EXCEPT ![g] = r]
       /\ IF NeedsFallback(r)
          THEN IF cleanContent[g] \in FixableTexts
               THEN /\ pc' = [pc EXCEPT ![g] = "awaitFixed"]
                    /\ log' = Append(log, Call("render-fixed", g, engineTheme,
                                               RepairOf[cleanContent[g]]))
                    /\ pending' = (pending \ {p}) \cup
                         {PendingCall(g, "fixed", RepairOf[cleanContent[g]],
                                      engineTheme)}
                    /\ UNCHANGED <<obs, commits>>
               ELSE /\ pc' = [pc EXCEPT ![g] = "done"]
                    /\ pending' = pending \ {p}
                    /\ UNCHANGED log
                    /\ IF isCancelled[g] THEN UNCHANGED <<obs, commits>>
                       ELSE CommitFailure(g, ErrUnrepairable)
          ELSE /\ pc' = [pc EXCEPT ![g] = "done"]
               /\ pending' = pending \ {p}
               /\ UNCHANGED log
               /\ Finish(g, r, Svg(p.text, p.theme), wasAutoCorrected)
  /\ UNCHANGED <<content, isDarkMode, mounted, timeoutRef, timers, genCount,
                 isCancelled, cleanContent, genTheme, engineTheme,
                 tryFixPending, fixedResult, cancelledAt, x>>
  /\ UNCHANGED hookVars

\* The mermaid.render call on the repaired text of generation g settles.
SettleFixed(g, r) ==
  /\ \E p \in pending :
       /\ p.gen = g /\ p.kind = "fixed"
       /\ pending' = pending \ {p}
       /\ pc' = [pc EXCEPT ![g] = "done"]
       /\ fixedResult' = [fixedResult EXCEPT ![g] = r]
       /\ IF r = "throw"
          THEN IF isCancelled[g] THEN UNCHANGED <<obs, commits>>
               ELSE CommitFailure(g, ErrRepairFailed)
          ELSE Finish(g, r, Svg(p.text, p.theme),
                      Upd(wasAutoCorrected, MarkAutoCorrected(wasAutoCorrected)))
  /\ UNCHANGED <<content, isDarkMode, mounted, timeoutRef, timers, genCount,
                 isCancelled, cleanContent, genTheme, engineTheme, log,
                 tryFixPending, origResult, cancelledAt, x>>
  /\ UNCHANGED hookVars

\* handleTryFix: the Try Fix button of the error view is clicked and the
\* clipboard write starts.
TryFixClick ==
  /\ mounted
  /\ error # NULL
  /\ content \in FixableTexts
  /\ tryFixPending < MaxTryFix
  /\ tryFixPending' = tryFixPending + 1
  /\ UNCHANGED <<content, isDarkMode, obs, mounted, timeoutRef, timers,
                 genCount, pc, isCancelled, cleanContent, genTheme, pending,
                 engineTheme, log, commits, origResult, fixedResult, cancelledAt, x>>
  /\ UNCHANGED hookVars

\* navigator.clipboard.writeText(...).then(() => setError(...))
TryFixResolve ==
  /\ tryFixPending > 0
  /\ tryFixPending' = tryFixPending - 1
  /\ error' = Upd(error, ErrFixCopied)
  /\ UNCHANGED <<content, isDarkMode, svgContent, isRendered,
                 wasAutoCorrected, mounted, timeoutRef, timers, genCount, pc,
                 isCancelled, cleanContent, genTheme, pending, engineTheme,
                 log, commits, origResult, fixedResult, cancelledAt, x>>
  /\ UNCHANGED hookVars

\* the clipboard write is rejected: nothing is set
TryFixReject ==
  /\ tryFixPending > 0
  /\ tryFixPending' = tryFixPending - 1
  /\ UNCHANGED <<content, isDarkMode, obs, mounted, timeoutRef, timers,
                 genCount, pc, isCancelled, cleanContent, genTheme, pending,
                 engineTheme, log, commits, origResult, fixedResult, cancelledAt, x>>
  /\ UNCHANGED hookVars

Next ==
  \/ \E c \in Contents, d \in BOOLEAN : RunEffect(c, d)
  \/ Unmount
  \/ \E g \in Gens, initThrows \in BOOLEAN : TimerFire(g, initThrows)
  \/ \E g \in Gens, r \in RenderResults : SettleOriginal(g, r)
  \/ \E g \in Gens, r \in RenderResults : SettleFixed(g, r)
  \/ TryFixClick
  \/ TryFixResolve
  \/ TryFixReject

Spec == Init /\ [][Next]_vars

\* The timer callback runs once its delay has elapsed, and every engine
\* call eventually returns or throws.
Fairness ==
  \A g \in Gens :
    /\ WF_vars(\E initThrows \in BOOLEAN : TimerFire(g, initThrows))
    /\ WF_vars(\E r \in RenderResults : SettleOriginal(g, r))
    /\ WF_vars(\E r \in RenderResults : SettleFixed(g, r))

\* One input for each path through the effect and renderDiagram: empty,
\* unrecognised, recognised with and without a repair, and a theme change.
LiveInputs ==
  {<<TxtBlank, FALSE>>, <<TxtBad, FALSE>>, <<TxtGood, FALSE>>,
   <<TxtFixable, FALSE>>, <<TxtFixable, TRUE>>}

\* The render pipeline alone: the clipboard write of handleTryFix reads and
\* writes only the error state, never a generation's position or outcome.
NextLive ==
  \/ \E in \in LiveInputs : RunEffect(in[1], in[2])
  \/ Unmount
  \/ \E g \in Gens, initThrows \in BOOLEAN : TimerFire(g, initThrows)
  \/ \E g \in Gens, r \in RenderResults : SettleOriginal(g, r)
  \/ \E g \in Gens, r \in RenderResults : SettleFixed(g, r)

SpecLive == Init /\ [][NextLive]_vars /\ Fairness

\* ------------------------------------------------------------------------
\* fixCommonSyntaxIssues on its own: inputs built piece by piece
\* ------------------------------------------------------------------------
\* x is the sequence of the pieces chosen; Flatten(x) is the text
RECURSIVE Flatten(_)
Flatten(ps) == IF ps = <<>> THEN <<>> ELSE Head(ps) \o Flatten(Tail(ps))

AppendPiece(p) ==
  /\ Len(x) < MaxPieces
  /\ x' = Append(x, p)
  /\ UNCHANGED <<content, isDarkMode, obs, mounted, timeoutRef, timers,
                 genCount, pc, isCancelled, cleanContent, genTheme, pending,
                 engineTheme, log, tryFixPending, commits, origResult, fixedResult,
                 cancelledAt>>
  /\ UNCHANGED hookVars

NextRepair == \E p \in Pieces : AppendPiece(p)

SpecRepair == Init /\ [][NextRepair]_vars

\* ------------------------------------------------------------------------
\* The conversation key registry: useCreateConversationAtom
\* ------------------------------------------------------------------------
\* keys.includes(key)
Includes(ks, k) == \E i \in 1..Len(ks) : ks[i] = k

\* faulty variant: the key is appended without the test
AlwaysRegister(ks, k) == TRUE

\* if (!keys.includes(key))
NeedsRegistration(ks, k) == ~Includes(ks, k)

\* an effect of the last commit has not run yet
EffectDue == \E h \in Hooks : hooks[h].effect

\* the mounted hooks whose last render read an older value of the atom
StaleHooks ==
  { h \in Hooks : hooks[h].status = "mounted"
                  /\ hooks[h].keys # conversationKeysAtom }

\* A commit mounts the hooks of S, hook h with key f[h]: each reads the
\* atom's value in this render, and its effect is due. Call sites are
\* interchangeable, so they mount in the order of their numbers.
MountHooks(S, f) ==
  /\ S # {}
  /\ ~EffectDue
  /\ \A h \in S : hooks[h].status = "new"
  /\ \A h \in S, h2 \in Hooks \ S : h2 < h => hooks[h2].status # "new"
  /\ hooks' = [h \in Hooks |->
                 IF h \in S
                 THEN [status |-> "mounted", key |-> f[h],
                       keys |-> conversationKeysAtom, effect |-> TRUE]
                 ELSE hooks[h]]
  /\ UNCHANGED <<conversationKeysAtom, overwrote>>
  /\ UNCHANGED diagramVars

\* The effect of hook h runs: setKeys([...keys, key]) on the keys its render
\* read, when they do not include its key.
RunHookEffect(h) ==
  /\ hooks[h].effect
  /\ hooks' = [hooks EXCEPT ![h].effect = FALSE]
  /\ conversationKeysAtom' =
       IF NeedsRegistration(hooks[h].keys, hooks[h].key)
       THEN Append(hooks[h].keys, hooks[h].key)
       ELSE conversationKeysAtom
  /\ overwrote' = (overwrote \/ \E i \in 1..Len(conversationKeysAtom) :
                                  ~Includes(conversationKeysAtom', conversationKeysAtom[i]))
  /\ UNCHANGED diagramVars

\* The atom has changed: its subscribers render again with the new value,
\* and their effects, which depend on keys, are due.
Rerender ==
  /\ ~EffectDue
  /\ StaleHooks # {}
  /\ hooks' = [h \in Hooks |->
                 IF h \in StaleHooks
                 THEN [hooks[h] EXCEPT !.keys = conversationKeysAtom,
                                       !.effect = TRUE]
                 ELSE hooks[h]]
  /\ UNCHANGED <<conversationKeysAtom, overwrote>>
  /\ UNCHANGED diagramVars

\* Hook h unmounts; the effect has no cleanup and the key stays in the list.
UnmountHook(h) ==
  /\ ~EffectDue
  /\ hooks[h].status = "mounted"
  /\ hooks' = [hooks EXCEPT ![h] = [NoHook EXCEPT !.status = "gone"]]
  /\ UNCHANGED <<conversationKeysAtom, overwrote>>
  /\ UNCHANGED diagramVars

NextKeys ==
  \/ \E S \in SUBSET Hooks : \E f \in [S -> ConvoKeys] : MountHooks(S, f)
  \/ \E h \in Hooks : RunHookEffect(h)
  \/ Rerender
  \/ \E h \in Hooks : UnmountHook(h)

SpecKeys == Init /\ [][NextKeys]_vars

\* ------------------------------------------------------------------------
\* Vocabulary of the properties
\* ------------------------------------------------------------------------
\* the calls generation g has made to mermaid: their positions in the log
CallsOf(g, ops) == { i \in 1..Len(log) : log[i].gen = g /\ log[i].op \in ops }

EngineOps == {"initialize", "render-original", "render-fixed"}
RenderOps == {"render-original", "render-fixed"}

\* generation g has made no call to mermaid and has none in flight
NoEngineUse(g) ==
  /\ CallsOf(g, EngineOps) = {}
  /\ \A p \in pending : p.gen # g

\* generation g has started (its effect has run)
Started(g) == pc[g] # "idle"

\* generation g was live when its renderDiagram finished
LiveAtEnd(g) == pc[g] = "done" /\ cancelledAt[g] \in {"live", "done"}

\* mermaid.initialize of generation g threw: renderDiagram left the try block
\* before its first render call
InitThrew(g) ==
  /\ CallsOf(g, {"initialize"}) # {}
  /\ CallsOf(g, {"render-original"}) = {}

\* generation g committed once, and committed a failure
FailureCommitted(g) ==
  /\ Len(commits[g]) = 1
  /\ commits[g][1].error # NULL
  /\ ~commits[g][1].isRendered
  /\ ~commits[g][1].wasAutoCorrected

\* no key occurs twice in the list
NoDuplicates(ks) ==
  \A i, j \in 1..Len(ks) : ks[i] = ks[j] => i = j

\* every effect has run against the current value of the atom
EffectsSettled == ~EffectDue /\ StaleHooks = {}

\* the text starts, ignoring case, with one of the diagram-type keywords
StartsWithKeyword(text) ==
  \E kw \in DiagramTypes :
    /\ Len(text) >= Len(kw)
    /\ [i \in 1..Len(kw) |-> Lower(text[i])] = [i \in 1..Len(kw) |-> Lower(kw[i])]

\* every character of the text is whitespace
AllSpaces(text) == \A i \in 1..Len(text) : IsSpace(text[i])

\* the non-empty trimmed texts that do not start with a keyword
UnrecognisedTexts == { t \in CleanTexts : t # <<>> /\ ~StartsWithKeyword(t) }

\* the trimmed texts the repair leaves unchanged, and those it changes
UnrepairableTexts == { t \in CleanTexts : RepairOf[t] = t }
RepairableTexts == { t \in CleanTexts : RepairOf[t] # t }

\* ------------------------------------------------------------------------
\* Properties
\* ------------------------------------------------------------------------
\* C1: once a generation has been cancelled, no step of its remaining work
\* (timer, original render, repaired render) changes the observable state
\* (error, artifact, rendered flag, auto-corrected flag).
CancelledWorkIsSilent ==
  [][\A g \in Gens : (isCancelled[g] /\ pc'[g] # pc[g]) => obs' = obs]_vars

\* C2: a generation superseded by a newer input while its debounce timer was
\* pending never commits an outcome: its timer is cancelled and its
\* renderDiagram never runs.
GenerationIsolation ==
  \A g \in Gens :
    (g < genCount /\ cancelledAt[g] = "debouncing")
      => /\ commits[g] = <<>>
         /\ g \notin timers
         /\ pc[g] = "debouncing"

\* C2 witness: A was superseded while debouncing and B went on to commit.
GenerationIsolationWitness ==
  \E g \in Gens :
    /\ g < genCount
    /\ cancelledAt[g] = "debouncing"
    /\ Len(commits[genCount]) = 1
    /\ pc[genCount] = "done"

\* C3: within one generation, once an outcome other than Pending is shown
\* (an error or a rendered artifact), the observable outcome does not
\* change again.
CommittedOutcomeIsFinal ==
  [][(genCount' = genCount /\ (error # NULL \/ isRendered)) => obs' = obs]_vars

\* C4: when the original render of the current generation has succeeded and
\* the generation has committed, the surface shows Success with
\* wasAutoCorrected = false.
ExactRenderNotAutoCorrected ==
  (genCount > 0 /\ origResult[cur] = "svg" /\ commits[cur] # <<>>)
    => (isRendered /\ ~wasAutoCorrected)

\* C5: a generation whose trimmed text does not start with a diagram-type
\* keyword never calls mermaid (neither initialize nor render), and when
\* its renderDiagram has run it has committed exactly the InvalidType
\* failure.
ValidatorGate ==
  \A g \in Gens :
    (Started(g) /\ cleanContent[g] \in UnrecognisedTexts)
      => /\ NoEngineUse(g)
         /\ pc[g] \in {"debouncing", "done"}
         /\ pc[g] = "done"
              => /\ Len(commits[g]) = 1
                 /\ commits[g][1].error = ErrInvalidType
                 /\ ~commits[g][1].isRendered
                 /\ ~commits[g][1].wasAutoCorrected
         /\ pc[g] = "debouncing" => commits[g] = <<>>

\* C5 witness: the renderDiagram of a generation with an unrecognised text
\* has run.
ValidatorGateWitness ==
  \E g \in Gens :
    /\ cleanContent[g] = TxtBad
    /\ pc[g] = "done"
    /\ error = ErrInvalidType

\* C6: when the original render has failed and the repair leaves the text
\* unchanged, no second render call is made, and a generation still live
\* commits exactly the UnrepairableSyntax failure.
NoOpGuarantee ==
  \A g \in Gens :
    (origResult[g] = "throw" /\ cleanContent[g] \in UnrepairableTexts)
      => /\ CallsOf(g, {"render-fixed"}) = {}
         /\ Cardinality(CallsOf(g, RenderOps)) = 1
         /\ \A p \in pending : p.gen # g
         /\ pc[g] = "done"
         /\ fixedResult[g] = "none"
         /\ LiveAtEnd(g)
              => /\ Len(commits[g]) = 1
                 /\ commits[g][1].error = ErrUnrepairable
                 /\ ~commits[g][1].isRendered

\* C6 witness: a live generation with an unrepairable text whose original
\* render has thrown.
NoOpGuaranteeWitness ==
  \E g \in Gens :
    /\ origResult[g] = "throw"
    /\ cleanContent[g] = TxtGood
    /\ LiveAtEnd(g)
    /\ error = ErrUnrepairable

\* C7: fixCommonSyntaxIssues is idempotent.
RepairIdempotent ==
  fixCommonSyntaxIssues(fixCommonSyntaxIssues(Flatten(x)))
    = fixCommonSyntaxIssues(Flatten(x))

\* C8: a generation makes at most one original and one repaired render
\* call, the repaired one only after its original call has thrown, and
\* never has two calls in flight.
RetryBound ==
  \A g \in Gens :
    /\ Cardinality(CallsOf(g, {"render-original"})) <= 1
    /\ Cardinality(CallsOf(g, {"render-fixed"})) <= 1
    /\ \A j \in CallsOf(g, {"render-fixed"}) :
         /\ origResult[g] = "throw"
         /\ \E i \in CallsOf(g, {"render-original"}) : i < j
    /\ Cardinality({ p \in pending : p.gen = g }) <= 1
    /\ \A p \in pending :
         (p.gen = g /\ p.kind = "original") => origResult[g] = "none"
    /\ \A p \in pending :
         (p.gen = g /\ p.kind = "fixed") => fixedResult[g] = "none"

\* C8 witness: a generation has made both calls and both have settled.
RetryBoundWitness ==
  \E g \in Gens :
    /\ Cardinality(CallsOf(g, RenderOps)) = 2
    /\ fixedResult[g] # "none"

\* C9: a generation live to its end whose original render threw and whose
\* repaired text differs commits once: when the repaired render yields
\* markup, Success with wasAutoCorrected = true and the sized markup of the
\* repaired text under its theme; when the repaired render throws,
\* Failure(RepairAttemptFailed) with wasAutoCorrected = false.
RepairedOutcome ==
  \A g \in Gens :
    (LiveAtEnd(g) /\ origResult[g] = "throw"
       /\ cleanContent[g] \in RepairableTexts)
      => /\ Len(commits[g]) = 1
         /\ fixedResult[g] = "svg"
              => /\ commits[g][1].isRendered
                 /\ commits[g][1].wasAutoCorrected
                 /\ commits[g][1].svgContent =
                      [text |-> RepairOf[cleanContent[g]],
                       theme |-> ThemeOf(genTheme[g]), sized |-> TRUE]
         /\ fixedResult[g] = "throw"
              => /\ commits[g][1].error = ErrRepairFailed
                 /\ ~commits[g][1].isRendered
                 /\ ~commits[g][1].wasAutoCorrected

\* C9 witness: a second generation, live to its end, has rendered its
\* repaired text after an earlier generation configured the other theme.
RepairedOutcomeWitness ==
  /\ genCount = 2
  /\ LiveAtEnd(2)
  /\ fixedResult[2] = "svg"
  /\ CallsOf(1, {"initialize"}) # {}
  /\ genTheme[1] # genTheme[2]
  /\ isRendered

\* C10: a whitespace-only input is committed as Failure(EmptyInput) by the
\* effect itself: no timer is pending (that of the previous generation is
\* cleared and none is started), and the generation never calls mermaid.
EmptyInputImmediate ==
  /\ (genCount > 0 /\ AllSpaces(content))
       => /\ timers = {}
          /\ timeoutRef = NoTimer
          /\ pc[cur] = "done"
  /\ \A g \in Gens :
       (Started(g) /\ cleanContent[g] = <<>>)
         => /\ pc[g] = "done"
            /\ g \notin timers
            /\ NoEngineUse(g)
            /\ Len(commits[g]) = 1
            /\ commits[g][1].error = ErrEmpty
            /\ ~commits[g][1].isRendered

\* C10 witness: a whitespace-only input arrived while the timer of the
\* previous generation was pending.
EmptyInputImmediateWitness ==
  /\ genCount = 2
  /\ content = TxtBlank
  /\ cancelledAt[1] = "debouncing"
  /\ error = ErrEmpty

\* C11: a teardown while the current generation is debouncing cancels its
\* timer, and that generation never configures the engine, never starts a
\* render call and never commits an outcome.
TeardownWhileDebouncing ==
  \A g \in Gens :
    (~mounted /\ g = genCount /\ cancelledAt[g] = "debouncing")
      => /\ g \notin timers
         /\ timeoutRef = NoTimer
         /\ isCancelled[g]
         /\ NoEngineUse(g)
         /\ \A p \in pending : p.gen # g
         /\ pc[g] = "debouncing"
         /\ commits[g] = <<>>

TeardownWhileDebouncingWitness ==
  /\ ~mounted
  /\ genCount = 2
  /\ cancelledAt[2] = "debouncing"
  /\ ~NoEngineUse(1)

\* C12: no render call, of the original or of the repaired text, is started
\* by a generation whose cancellation flag is already set.
NoRenderStartedWhenCancelled ==
  [][\A i \in (Len(log) + 1)..Len(log') :
       log'[i].op \in RenderOps => ~isCancelled[log'[i].gen]]_vars

\* C13: at most one debounce timer is pending at any moment, and it is the
\* timer of the current generation, held in timeoutRef; timers of two
\* generations are never pending together.
SingleDebounceTimer ==
  /\ Cardinality(timers) <= 1
  /\ \A g \in timers : g = genCount /\ timeoutRef = g /\ pc[g] = "debouncing"

SingleDebounceTimerWitness ==
  /\ genCount = 2
  /\ timers = {2}
  /\ cancelledAt[1] = "debouncing"

\* C14: every generation with a non-empty trimmed text that is neither
\* superseded nor torn down eventually commits an outcome, and no generation
\* commits more than one, given that the timer fires and every engine call
\* settles.
LiveGenerationCommitsOnce ==
  \A g \in Gens :
    /\ [](Len(commits[g]) <= 1)
    /\ (pc[g] = "debouncing") ~> (isCancelled[g] \/ Len(commits[g]) = 1)

LiveGenerationCommitsOnceWitness ==
  \E g \in Gens :
    /\ LiveAtEnd(g)
    /\ cancelledAt[g] = "live"
    /\ fixedResult[g] # "none"
    /\ Len(commits[g]) = 1

\* C15: every render call is preceded, within its generation, by a
\* configuration write carrying that generation's theme, and no
\* configuration write of another generation lies between that write and the
\* render call.
ConfigPrecedesRender ==
  \A j \in 1..Len(log) :
    log[j].op \in RenderOps =>
      \E i \in 1..(j - 1) :
        /\ log[i].op = "initialize"
        /\ log[i].gen = log[j].gen
        /\ log[i].theme = ThemeOf(genTheme[log[j].gen])
        /\ \A k \in (i + 1)..(j - 1) :
             log[k].op = "initialize" => log[k].gen = log[j].gen

\* C16: a change of the theme alone, the content unchanged, supersedes the
\* current generation, resets the displayed outcome to in-progress and starts
\* a new generation on the same trimmed text (debounced when the text is not
\* empty) that captures the new theme; and every configuration write carries
\* the theme captured by its generation.
ThemeChangeStartsGeneration ==
  [][/\ (mounted /\ content' = content /\ isDarkMode' # isDarkMode) =>
          /\ genCount' = genCount + 1
          /\ isCancelled'[genCount]
          /\ ~isRendered'
          /\ ~wasAutoCorrected'
          /\ genTheme'[genCount'] = isDarkMode'
          /\ cleanContent'[genCount'] = cleanContent[genCount]
          /\ IF cleanContent[genCount] = <<>>
             THEN error' = ErrEmpty /\ timers' = {}
             ELSE /\ error' = NULL
                  /\ timers' = {genCount'}
                  /\ pc'[genCount'] = "debouncing"
     /\ \A i \in (Len(log) + 1)..Len(log') :
          log'[i].op = "initialize" =>
            log'[i].theme = ThemeOf(genTheme[log'[i].gen])]_vars

ThemeChangeStartsGenerationWitness ==
  /\ genCount = 2
  /\ cleanContent[1] = TrimOf[TxtFixable]
  /\ cleanContent[2] = TrimOf[TxtFixable]
  /\ genTheme[1] # genTheme[2]
  /\ commits[1] # <<>>
  /\ isCancelled[1]
  /\ CallsOf(2, {"initialize"}) # {}
  /\ engineTheme = ThemeOf(isDarkMode)

\* C17: a new content whose trimmed text and theme equal those of the
\* current generation starts no new generation, resets no outcome, cancels
\* nothing and causes no engine call.
SameIdentityStartsNothing ==
  [][(/\ mounted
      /\ content' # content
      /\ diagramKey(content', isDarkMode') = diagramKey(content, isDarkMode))
       => UNCHANGED <<genCount, obs, isCancelled, timers, timeoutRef, pc, log>>]_vars

\* C18 as stated: for a live generation, an exception thrown by the
\* configuration call or by either render call, or a render result without
\* markup, always ends in a committed failure.
EveryEngineFaultFails ==
  \A g \in Gens :
    (/\ LiveAtEnd(g)
     /\ \/ InitThrew(g)
        \/ origResult[g] \in {"throw", "nosvg"}
        \/ fixedResult[g] \in {"throw", "nosvg"})
      => FailureCommitted(g)

\* C18 amended: for a live generation, an exception thrown by the
\* configuration call or by the repaired render call, a render result without
\* markup, or an exception thrown by the original render call when no
\* repaired render follows, ends in a committed failure (error set, not
\* rendered, not auto-corrected); an exception thrown by the original render
\* call ends in success only when the repaired render yields markup.
UnrecoveredEngineFaultFails ==
  \A g \in Gens :
    LiveAtEnd(g) =>
      /\ (\/ InitThrew(g)
          \/ origResult[g] = "nosvg"
          \/ fixedResult[g] \in {"throw", "nosvg"}
          \/ origResult[g] = "throw" /\ fixedResult[g] = "none")
           => FailureCommitted(g)
      /\ (origResult[g] = "throw" /\ ~FailureCommitted(g))
           => /\ fixedResult[g] = "svg"
              /\ Len(commits[g]) = 1
              /\ commits[g][1].isRendered

UnrecoveredEngineFaultFailsWitness ==
  \E g \in Gens :
    /\ LiveAtEnd(g)
    /\ origResult[g] = "throw"
    /\ fixedResult[g] = "nosvg"
    /\ FailureCommitted(g)
    /\ commits[g][1].error = ErrNoSvg

\* C19: whenever the rendered flag is set, the error state is null.
RenderedMeansNoError == isRendered => error = NULL

\* C20: whenever the rendered flag is set, the stored artifact is the
\* processed markup of the current generation's trimmed text, or of its
\* repair, rendered under the current theme, and the current generation has
\* committed it; and a new generation leaves the stored markup in place while
\* the flag is reset.
ArtifactIsCurrent ==
  /\ isRendered =>
       /\ genCount > 0
       /\ \E t \in {cleanContent[genCount], RepairOf[cleanContent[genCount]]} :
            svgContent = ProcessSvg(Svg(t, ThemeOf(isDarkMode)))
       /\ genTheme[genCount] = isDarkMode
       /\ Len(commits[genCount]) = 1
       /\ commits[genCount][1].svgContent = svgContent
  /\ \A g \in Gens :
       (/\ g + 1 = genCount
        /\ cancelledAt[g] = "done"
        /\ commits[g] # <<>>
        /\ commits[genCount] = <<>>)
         => /\ svgContent = commits[g][1].svgContent
            /\ ~isRendered

ArtifactIsCurrentWitness ==
  /\ genCount = 2
  /\ isRendered
  /\ commits[1] # <<>>
  /\ commits[1][1].isRendered
  /\ commits[1][1].svgContent # svgContent
  /\ wasAutoCorrected

\* C21: the key list never contains a key twice, and once the effects have
\* settled the key of every mounted hook is in it, also when hooks with
\* different keys have run their effects on the same stale list.
KeysRegistered ==
  /\ NoDuplicates(conversationKeysAtom)
  /\ EffectsSettled =>
       \A h \in Hooks :
         hooks[h].status = "mounted" =>
           \E i \in 1..Len(conversationKeysAtom) :
             conversationKeysAtom[i] = hooks[h].key

KeysRegisteredWitness ==
  /\ EffectsSettled
  /\ overwrote
  /\ Len(conversationKeysAtom) = 2
  /\ \E h1, h2 \in Hooks :
       /\ hooks[h1].status = "mounted"
       /\ hooks[h2].status = "mounted"
       /\ hooks[h1].key # hooks[h2].key

====
